---- MODULE Spec2Model ----
(***************************************************************************)
(* A model of phidata's function-calling layer (phi/tools/function.py) and *)
(* of the delegating assistant group (phi/assistant/group/group.py).       *)
(*                                                                         *)
(* Python strings are sequences of one-character strings, so that          *)
(* concatenation, replace() and lower() are computed and not assumed.      *)
(* A Python value is a record [t, s]: t is "none", "str" or "obj" (any     *)
(* value that is not a str), and s is the text of a str.                   *)
(***************************************************************************)
EXTENDS Integers, Sequences, FiniteSets, TLC

VARIABLES
    fc,           \* the FunctionCall object: function.entrypoint and the fields
    ret,          \* what the last execute() returned: "none", "True", "False"
    escaped,      \* the exception that left the last execute(), or NoExc
    last,         \* the last execute(): the object before it, the entrypoint's outcome
    invocations,  \* how often this object's entrypoint has been called
    executes,     \* how often execute() has been called on this object
    callStr,      \* what the last get_call_str() returned
    deriver,      \* get_json_schema: the required names it derives from type hints
    fn,           \* a Function object
    bres,         \* the last call of build, from_callable or get_definition_for_prompt
    group,        \* the AssistantGroup: lead and members
    script,       \* what the group's leader does when it is run
    sgen,         \* the generator run(stream=True) returned
    delivered,    \* the items the consumer has pulled from sgen
    sesc,         \* the exception a pull of sgen raised to the consumer, or NoExc
    once,         \* run(stream=False): its generator, its return value, its exception
    out           \* what the last access of leader or member_delegation_function returned

buildVars == <<deriver, fn, bres>>

callVars == <<fc, ret, escaped, last, invocations, executes, callStr, buildVars>>

runVars == <<script, sgen, delivered, sesc, once>>

vars == <<callVars, group, runVars, out>>

(***************************************************************************)
(* Bounds of the model.                                                    *)
(***************************************************************************)
MaxExecutes == 3

MaxChunks == 2

MaxMembers == 2

MaxIndex == 10

(***************************************************************************)
(* Constants of the program.                                               *)
(***************************************************************************)
\* Function.name: "with a maximum length of 64".
NameLimit == 64

(***************************************************************************)
(* Python values.                                                          *)
(***************************************************************************)
None == [t |-> "none", s |-> <<>>]

Str(s) == [t |-> "str", s |-> s]

Obj == [t |-> "obj", s |-> <<>>]

IsStr(v) == v.t = "str"

(***************************************************************************)
(* Exceptions. Every exception an entrypoint raises here derives from      *)
(* Exception: the wrapper's pydantic ValidationError (raised before the    *)
(* body runs) or an error of the body. str(e) is its message.              *)
(***************************************************************************)
NoExc == [type |-> "none", msg |-> <<>>]

Messages == {<<>>, <<"x">>, <<"b", "a", "d">>}

Exceptions == [type : {"ValidationError", "ValueError"}, msg : Messages]

PyStr(e) == Str(e.msg)

(***************************************************************************)
(* Function.entrypoint: None, or validate_call(c) for a callable c with    *)
(* the given parameters. A call of the wrapper with keyword names that are *)
(* not c's parameters raises ValidationError before c runs; otherwise the  *)
(* arguments may still fail validation, or c runs and returns or raises.   *)
(***************************************************************************)
ArgNames == {"a", "b"}

\* get_call_str elides a str longer than this.
TrimLimit == 50

ArgValues ==
    {Str(<<"y">>), Obj, Str([k \in 1..TrimLimit |-> "y"]), Str([k \in 1..(TrimLimit + 1) |-> "y"])}

ReturnValues == {Str(<<"o", "k">>), Str(<<>>), Obj, None}

NoEntrypoint == [bound |-> FALSE, params |-> {}]

Callables == [bound : {TRUE}, params : SUBSET ArgNames]

Entrypoints == {NoEntrypoint} \cup Callables

Returned(v) == [kind |-> "return", val |-> v, exc |-> NoExc]

Raised(e) == [kind |-> "raise", val |-> None, exc |-> e]

NoOutcome == [kind |-> "none", val |-> None, exc |-> NoExc]

CallOutcomes(ep, names) ==
    IF names # ep.params
    THEN {Raised(e) : e \in {x \in Exceptions : x.type = "ValidationError"}}
    ELSE {Returned(v) : v \in ReturnValues} \cup {Raised(e) : e \in Exceptions}

(***************************************************************************)
(* FunctionCall: arguments is None or a mapping from names to values. The  *)
(* constructor accepts every field, so result, call_id and error may be   *)
(* set before execute() runs.                                              *)
(***************************************************************************)
NoArguments == [isNone |-> TRUE, kw |-> <<>>]

Mappings == UNION {[names -> ArgValues] : names \in SUBSET ArgNames}

Arguments == {NoArguments} \cup {[isNone |-> FALSE, kw |-> m] : m \in Mappings}

FunctionCalls ==
    [entrypoint : Entrypoints,
     arguments : Arguments,
     result : {None, Str(<<"o", "l", "d">>)},
     call_id : {None, Str(<<"c", "1">>)},
     error : {None, Str(<<"e">>)}]

(***************************************************************************)
(* FunctionCall.execute(). HandleCall is the try/except around the call of *)
(* the entrypoint (the same in both branches, with and without arguments): *)
(* the object it leaves, what execute() returns, the exception that leaves *)
(* execute(), and how often the entrypoint was called.                     *)
(***************************************************************************)
\* Variant: the handler catches ValueError only.
HandleCallNarrow(f, outcome) ==
    IF outcome.kind = "return"
    THEN [fc |-> [f EXCEPT !.result = outcome.val], ret |-> "True",
          escaped |-> NoExc, calls |-> 1]
    ELSE IF outcome.exc.type = "ValueError"
    THEN [fc |-> [f EXCEPT !.result = PyStr(outcome.exc)], ret |-> "False",
          escaped |-> NoExc, calls |-> 1]
    ELSE [fc |-> f, ret |-> "none", escaped |-> outcome.exc, calls |-> 1]

\* Variant: the handler calls the entrypoint a second time before giving up.
HandleCallRetry(f, outcome) ==
    IF outcome.kind = "return"
    THEN [fc |-> [f EXCEPT !.result = outcome.val], ret |-> "True",
          escaped |-> NoExc, calls |-> 1]
    ELSE [fc |-> [f EXCEPT !.result = PyStr(outcome.exc)], ret |-> "False",
          escaped |-> NoExc, calls |-> 2]

\* The code: except Exception, result = str(e), return False.
HandleCall(f, outcome) ==
    IF outcome.kind = "return"
    THEN [fc |-> [f EXCEPT !.result = outcome.val], ret |-> "True",
          escaped |-> NoExc, calls |-> 1]
    ELSE [fc |-> [f EXCEPT !.result = PyStr(outcome.exc)], ret |-> "False",
          escaped |-> NoExc, calls |-> 1]

\* Variant: the early return resets result and error.
NoEntrypointReturnClears(f) ==
    [fc |-> [f EXCEPT !.result = None, !.error = None], ret |-> "False",
     escaped |-> NoExc, calls |-> 0]

\* The early return of execute() when function.entrypoint is None.
NoEntrypointReturn(f) ==
    [fc |-> f, ret |-> "False", escaped |-> NoExc, calls |-> 0]

\* The keyword names execute() passes: none when arguments is None.
PassedNames(f) == IF f.arguments.isNone THEN {} ELSE DOMAIN f.arguments.kw

HasEntrypoint(f) == f.entrypoint.bound

\* What the entrypoint may do when execute() calls it (nothing: it is not called).
ExecuteOutcomes(f) ==
    IF HasEntrypoint(f) THEN CallOutcomes(f.entrypoint, PassedNames(f)) ELSE {NoOutcome}

\* Variant: execute() remembers it has run and does nothing the second time.
ExecuteStepOnce(f, outcome) ==
    IF ~HasEntrypoint(f) THEN NoEntrypointReturn(f)
    ELSE IF executes > 0
    THEN [fc |-> f, ret |-> "False", escaped |-> NoExc, calls |-> 0]
    ELSE HandleCall(f, outcome)

ExecuteStep(f, outcome) ==
    IF ~HasEntrypoint(f) THEN NoEntrypointReturn(f) ELSE HandleCall(f, outcome)

Execute ==
    /\ executes < MaxExecutes
    /\ \E outcome \in ExecuteOutcomes(fc) :
           LET step == ExecuteStep(fc, outcome)
           IN  /\ fc' = step.fc
               /\ ret' = step.ret
               /\ escaped' = step.escaped
               /\ last' = [pre |-> fc, outcome |-> outcome, calls |-> step.calls]
               /\ invocations' = invocations + step.calls
    /\ executes' = executes + 1
    /\ UNCHANGED <<callStr, buildVars, group, runVars, out>>

(***************************************************************************)
(* FunctionCall.get_call_str().                                            *)
(***************************************************************************)
Ellipsis == <<".", ".", ".">>

\* Variant: a value of exactly the limit is elided too.
TrimAtLimit(v) == IF IsStr(v) /\ Len(v.s) >= TrimLimit THEN Str(Ellipsis) ELSE v

\* Line 115-118: the value shown for an argument.
Trim(v) == IF IsStr(v) /\ Len(v.s) > TrimLimit THEN Str(Ellipsis) ELSE v

\* f"{v}" of a value: a str as it is, another object by its __str__.
Format(v) == IF IsStr(v) THEN v.s ELSE <<"<", "o", "b", "j", ">">>

\* self.function.name
FunctionName == <<"f">>

\* The keys of the arguments in the order the dict holds them.
ArgOrder(kw) == SelectSeq(<<"a", "b">>, LAMBDA k : k \in DOMAIN kw)

RECURSIVE Join(_, _)
\* ", ".join(items)
Join(sep, items) ==
    IF items = <<>> THEN <<>>
    ELSE IF Len(items) = 1 THEN items[1]
    ELSE items[1] \o sep \o Join(sep, Tail(items))

\* Lines 108-120: the trimmed copy and the text made from it.
CallStr(f) ==
    IF f.arguments.isNone
    THEN [called |-> TRUE, trimmed |-> <<>>, text |-> FunctionName \o <<"(", ")">>]
    ELSE LET kw == f.arguments.kw
             trimmed_arguments == [k \in DOMAIN kw |-> Trim(kw[k])]
             order == ArgOrder(kw)
             items == [i \in 1..Len(order) |->
                          <<order[i], "=">> \o Format(trimmed_arguments[order[i]])]
         IN  [called |-> TRUE, trimmed |-> trimmed_arguments,
              text |-> FunctionName \o <<"(">> \o Join(<<",", " ">>, items) \o <<")">>]

GetCallStr ==
    /\ callStr' = CallStr(fc)
    /\ UNCHANGED <<fc, ret, escaped, last, invocations, executes, buildVars,
                   group, runVars, out>>

(***************************************************************************)
(* Callables given to Function.build and Function.from_callable. Every     *)
(* parameter is annotated; some have defaults; the return type is declared *)
(* or not ("none"). get_type_hints(c) succeeds or raises (an unresolved    *)
(* annotation), or get_json_schema raises on the hints. A callable without *)
(* __name__ (a functools.partial, an instance with __call__) is none of    *)
(* the objects get_type_hints accepts: it raises TypeError. Defaults are    *)
(* not read when the derivation fails, so those callables carry none.      *)
(***************************************************************************)
ParamNames == {"a", "b"}

ReturnTypes == {"none", "str"}

Derivations == {"ok", "hints_raise", "schema_raise"}

AllCallables ==
    [named : BOOLEAN, params : SUBSET ParamNames, defaults : SUBSET ParamNames,
     ret : ReturnTypes, derive : Derivations]

BuildCallables ==
    {c \in AllCallables :
        /\ c.defaults \subseteq c.params
        /\ c.derive # "ok" => c.defaults = {}
        /\ ~c.named => c.derive = "hints_raise" /\ c.params = {}}

NoCallable ==
    [named |-> TRUE, params |-> {}, defaults |-> {}, ret |-> "none", derive |-> "ok"]

AttributeError == [type |-> "AttributeError", msg |-> <<"_", "_", "n", "a", "m", "e", "_", "_">>]

NameError == [type |-> "NameError", msg |-> <<"x">>]

\* get_type_hints(c): the annotated names, with "return" when it is declared.
TypeHints(c) == c.params \cup (IF c.ret = "none" THEN {} ELSE {"return"})

\* {"type": "object", "properties": {}}
EmptySchema == [properties |-> {}, required |-> {}]

\* get_json_schema(type_hints): it is given the hints alone, so what it marks
\* required is a function of the hinted names; "return" is not a property.
Derivers == {d \in [SUBSET ParamNames -> SUBSET ParamNames] : \A p \in DOMAIN d : d[p] \subseteq p}

get_json_schema(hints, d) ==
    [properties |-> hints \ {"return"}, required |-> d[hints \ {"return"}]]

\* Lines 53-59 (33-39): the try/except around the derivation. The handler
\* formats c.__name__ into its warning.
DeriveParameters(c, d) ==
    IF c.derive = "ok"
    THEN [parameters |-> get_json_schema(TypeHints(c), d), exc |-> NoExc]
    ELSE IF c.named
    THEN [parameters |-> EmptySchema, exc |-> NoExc]
    ELSE [parameters |-> EmptySchema, exc |-> AttributeError]

\* A Function constructed with a name only: no entrypoint.
PlainFunction ==
    [name |-> "f", parameters |-> EmptySchema,
     entrypoint |-> [bound |-> FALSE, c |-> NoCallable], break_after_run |-> FALSE]

\* Lines 61-67 (41-46): cls(name=c.__name__, ..., entrypoint=validate_call(c)).
BuildFunction(c, d, break_after_run) ==
    LET p == DeriveParameters(c, d)
    IN  IF p.exc # NoExc THEN [exc |-> p.exc, fn |-> PlainFunction]
        ELSE IF ~c.named THEN [exc |-> AttributeError, fn |-> PlainFunction]
        ELSE [exc |-> NoExc,
              fn |-> [name |-> "f", parameters |-> p.parameters,
                      entrypoint |-> [bound |-> TRUE, c |-> c],
                      break_after_run |-> break_after_run]]

NoPrompt == [isNone |-> TRUE, name |-> "", arguments |-> {}, returns |-> ""]

NoBuild ==
    [op |-> "none", c |-> NoCallable, break_after_run |-> FALSE, exc |-> NoExc,
     prompt |-> NoPrompt]

Build ==
    /\ \E c \in BuildCallables, bar \in BOOLEAN :
           LET b == BuildFunction(c, deriver, bar)
           IN  /\ fn' = IF b.exc = NoExc THEN b.fn ELSE fn
               /\ bres' = [NoBuild EXCEPT !.op = "build", !.c = c,
                                          !.break_after_run = bar, !.exc = b.exc]
    /\ UNCHANGED <<fc, ret, escaped, last, invocations, executes, callStr, deriver,
                   group, runVars, out>>

FromCallable ==
    /\ \E c \in BuildCallables :
           LET b == BuildFunction(c, deriver, FALSE)
           IN  /\ fn' = IF b.exc = NoExc THEN b.fn ELSE fn
               /\ bres' = [NoBuild EXCEPT !.op = "from_callable", !.c = c, !.exc = b.exc]
    /\ UNCHANGED <<fc, ret, escaped, last, invocations, executes, callStr, deriver,
                   group, runVars, out>>

(***************************************************************************)
(* Function.get_definition_for_prompt().                                   *)
(***************************************************************************)
\* type_hints.get("return", "void").__name__: the default is the str "void",
\* and a str has no __name__.
ReturnsName(c) ==
    IF c.ret = "none" THEN [exc |-> AttributeError, name |-> ""]
    ELSE [exc |-> NoExc, name |-> c.ret]

DefinitionForPrompt(f) ==
    IF ~f.entrypoint.bound THEN [exc |-> NoExc, prompt |-> NoPrompt]
    ELSE IF f.entrypoint.c.derive = "hints_raise" THEN [exc |-> NameError, prompt |-> NoPrompt]
    ELSE LET r == ReturnsName(f.entrypoint.c)
         IN  IF r.exc # NoExc THEN [exc |-> r.exc, prompt |-> NoPrompt]
             ELSE [exc |-> NoExc,
                   prompt |-> [isNone |-> FALSE, name |-> f.name,
                               arguments |-> f.parameters.properties,
                               returns |-> r.name]]

GetDefinitionForPrompt ==
    /\ LET r == DefinitionForPrompt(fn)
       IN  bres' = [NoBuild EXCEPT !.op = "prompt", !.exc = r.exc, !.prompt = r.prompt]
    /\ UNCHANGED <<fc, ret, escaped, last, invocations, executes, callStr, deriver, fn,
                   group, runVars, out>>

(***************************************************************************)
(* Text. str.replace(" ", "_") and str.lower() work character by           *)
(* character; str(index) is the decimal numeral.                           *)
(***************************************************************************)
UpperChars == <<"A", "B", "C", "D", "E", "F", "G", "H", "I", "J", "K", "L", "M",
                "N", "O", "P", "Q", "R", "S", "T", "U", "V", "W", "X", "Y", "Z">>

LowerChars == <<"a", "b", "c", "d", "e", "f", "g", "h", "i", "j", "k", "l", "m",
                "n", "o", "p", "q", "r", "s", "t", "u", "v", "w", "x", "y", "z">>

LowerChar(c) ==
    IF \E i \in DOMAIN UpperChars : UpperChars[i] = c
    THEN LowerChars[CHOOSE i \in DOMAIN UpperChars : UpperChars[i] = c]
    ELSE c

Lower(s) == [k \in 1..Len(s) |-> LowerChar(s[k])]

\* Variant of replace: only the first occurrence.
RECURSIVE ReplaceFirst(_, _, _)
ReplaceFirst(s, old, new) ==
    IF s = <<>> THEN <<>>
    ELSE IF Head(s) = old THEN <<new>> \o Tail(s)
    ELSE <<Head(s)>> \o ReplaceFirst(Tail(s), old, new)

\* old and new are single characters: every occurrence is replaced in place.
Replace(s, old, new) == [k \in 1..Len(s) |-> IF s[k] = old THEN new ELSE s[k]]

Digits == <<"0", "1", "2", "3", "4", "5", "6", "7", "8", "9">>

RECURSIVE DecimalStr(_)
DecimalStr(n) ==
    IF n < 10 THEN <<Digits[n + 1]>>
    ELSE DecimalStr(n \div 10) \o <<Digits[(n % 10) + 1]>>

Repeat(c, n) == [k \in 1..n |-> c]

RECURSIVE Concat(_)
Concat(chunks) ==
    IF chunks = <<>> THEN <<>> ELSE Head(chunks).s \o Concat(Tail(chunks))

(***************************************************************************)
(* Assistants. A member is known by its name (None, or a str). The group   *)
(* has an explicit lead or not, and a list of members.                     *)
(***************************************************************************)
ResearchBot == <<"R", "e", "s", "e", "a", "r", "c", "h", " ", "B", "o", "t">>

MemberNames == {None, Str(<<>>), Str(ResearchBot), Str(<<"A", " ", " ", "b">>)}

Members == [name : MemberNames]

MemberLists == UNION {[1..n -> Members] : n \in 0..MaxMembers}

\* The group's own name.
GroupNames == {None, Str(<<"T">>)}

Groups ==
    [hasLead : BOOLEAN, members : MemberLists, name : GroupNames, hasReviewer : BOOLEAN]

\* Groups without name and reviewer.
PlainGroups == {g \in Groups : g.name = None /\ ~g.hasReviewer}

\* Members whose names hold a character outside letters, digits, "_" and "-", or
\* are long: given to member_delegation_function directly (the index is not read
\* for a member that has a name).
OddNames == {Str(<<"D", "r", ".", " ", "W", "h", "o">>), Str(Repeat("a", NameLimit))}

DelegateInputs ==
    {[member |-> m, index |-> i] : m \in Members, i \in 0..MaxIndex}
    \cup {[member |-> m, index |-> 0] : m \in [name : OddNames]}

\* Python truth of member.name: None and "" are false.
Truthy(v) == IsStr(v) /\ v.s # <<>>

(***************************************************************************)
(* AssistantGroup.member_delegation_function(member, index): the Function  *)
(* built from the closure that runs member with stream=False, renamed.     *)
(***************************************************************************)
DelegatePrefix ==
    <<"d", "e", "l", "e", "g", "a", "t", "e", "_", "t", "a", "s", "k", "_", "t", "o", "_">>

MemberPrefix == <<"m", "e", "m", "b", "e", "r", "_">>

\* Variant: only the first space of the name is replaced.
member_name_first_space(member, index) ==
    IF Truthy(member.name)
    THEN Lower(ReplaceFirst(member.name.s, " ", "_"))
    ELSE MemberPrefix \o DecimalStr(index)

member_name(member, index) ==
    IF Truthy(member.name)
    THEN Lower(Replace(member.name.s, " ", "_"))
    ELSE MemberPrefix \o DecimalStr(index)

member_delegation_function(member, index) ==
    LET name == member_name(member, index)
    IN  [name |-> DelegatePrefix \o name,
         description |-> name,
         runs |-> member,
         stream |-> FALSE]

(***************************************************************************)
(* AssistantGroup.leader: the explicit lead, or a fresh Assistant with one *)
(* delegation function per member, built with enumerate's 0-based index.   *)
(***************************************************************************)
\* The parts of _system_prompt that vary: whether it speaks of a group, the
\* group's name, one entry per member (its number from 1 and its name, if it
\* has one), and the closing sentence added when there is no reviewer.
NoSystemPrompt == [team |-> FALSE, name |-> None, assistants |-> <<>>, review |-> FALSE]

SystemPrompt(grp) ==
    LET team == Len(grp.members) > 0
    IN  [team |-> team,
         name |-> IF team /\ Truthy(grp.name) THEN grp.name ELSE None,
         assistants |-> [k \in 1..Len(grp.members) |->
                            [number |-> k,
                             name |-> IF Truthy(grp.members[k].name)
                                      THEN grp.members[k].name ELSE None]],
         review |-> ~grp.hasReviewer]

NoLeader == [resolved |-> FALSE, explicit |-> FALSE, tools |-> <<>>, prompt |-> NoSystemPrompt]

\* Variant: the delegation functions are collected in reverse member order.
LeaderReversed(grp) ==
    IF grp.hasLead
    THEN [resolved |-> TRUE, explicit |-> TRUE, tools |-> <<>>, prompt |-> NoSystemPrompt]
    ELSE [resolved |-> TRUE, explicit |-> FALSE,
          tools |-> [k \in 1..Len(grp.members) |->
                        member_delegation_function(grp.members[Len(grp.members) + 1 - k],
                                                   Len(grp.members) - k)],
          prompt |-> SystemPrompt(grp)]

Leader(grp) ==
    IF grp.hasLead
    THEN [resolved |-> TRUE, explicit |-> TRUE, tools |-> <<>>, prompt |-> NoSystemPrompt]
    ELSE [resolved |-> TRUE, explicit |-> FALSE,
          tools |-> [k \in 1..Len(grp.members) |->
                        member_delegation_function(grp.members[k], k - 1)],
          prompt |-> SystemPrompt(grp)]

(***************************************************************************)
(* The leader's behaviour in one run. Run with stream=True it emits chunks *)
(* and then finishes or raises; run with stream=False it raises or returns *)
(* its response: the text of its chunks, or a value that is not a str when *)
(* its output is not plain text.                                           *)
(***************************************************************************)
Sep == <<"\n", "\n">>

Chunks == {Str(<<"H", "e", "l">>), Str(<<"l", "o">>), Str(<<>>), Obj}

ChunkLists == UNION {[1..n -> Chunks] : n \in 0..MaxChunks}

Scripts == [streamable : BOOLEAN, chunks : ChunkLists, fails : BOOLEAN]

LeaderError == [type |-> "RuntimeError", msg |-> <<"x">>]

StopIteration == [type |-> "StopIteration", msg |-> <<>>]

AllStr(chunks) == \A k \in DOMAIN chunks : IsStr(chunks[k])

Response(sc) == IF AllStr(sc.chunks) THEN Str(Concat(sc.chunks)) ELSE Obj

(***************************************************************************)
(* AssistantGroup._run, a generator. A generator record holds where it is  *)
(* suspended (at), its locals and what it has done to the leader. Each     *)
(* operator below runs the generator to its next yield, its end or the     *)
(* exception that leaves it.                                               *)
(***************************************************************************)
\* Variant: the leader is resolved when the generator is created.
NewGenEager(stream) ==
    [stream |-> stream, at |-> "start", i |-> 0, run_output |-> <<>>,
     leader |-> NoLeader, resolutions |-> 1, leaderRuns |-> <<>>, requested |-> 0]

\* Calling _run creates the generator; none of its body has run.
NewGen(stream) ==
    [stream |-> stream, at |-> "start", i |-> 0, run_output |-> <<>>,
     leader |-> NoLeader, resolutions |-> 0, leaderRuns |-> <<>>, requested |-> 0]

NoGen == [NewGen(TRUE) EXCEPT !.at = "none"]

Yield(g, at, v) == [g |-> [g EXCEPT !.at = at], out |-> "yield", val |-> v, exc |-> NoExc]

Stop(g) == [g |-> [g EXCEPT !.at = "done"], out |-> "stop", val |-> None, exc |-> NoExc]

Raise(g, e) == [g |-> [g EXCEPT !.at = "raised"], out |-> "raise", val |-> None, exc |-> e]

\* Variant: the chunk is forwarded without the isinstance check.
ForwardRaw(chunk) == chunk

\* chunk if isinstance(chunk, str) else ""

Forward(chunk) == IF IsStr(chunk) THEN chunk ELSE Str(<<>>)

\* Variant: the transcript is yielded only when there is one.
AfterBranchesNonEmpty(g) ==
    IF ~g.stream /\ g.run_output # <<>> THEN Yield(g, "out", Str(g.run_output)) ELSE Stop(g)

\* Lines 155-157: the last yield of a run that is not streamed.
AfterBranches(g) ==
    IF ~g.stream THEN Yield(g, "out", Str(g.run_output)) ELSE Stop(g)

\* Lines 138-141: the for loop asks the leader's iterator for its next chunk.
StreamStep(g, sc) ==
    IF g.i < Len(sc.chunks)
    THEN LET chunk == sc.chunks[g.i + 1]
         IN  Yield([g EXCEPT !.i = @ + 1, !.requested = @ + 1,
                             !.run_output = @ \o Forward(chunk).s],
                   "chunk", Forward(chunk))
    ELSE IF sc.fails
    THEN Raise([g EXCEPT !.requested = @ + 1], LeaderError)
    ELSE Yield([g EXCEPT !.requested = @ + 1], "sep", Str(Sep))

\* Variant: the leader is run with stream=False outside any try.
SingleShotUnguarded(g, sc) ==
    LET g1 == [g EXCEPT !.leaderRuns = Append(@, FALSE)]
        resp == Response(sc)
    IN  IF sc.fails THEN Raise(g1, LeaderError)
        ELSE IF g.stream THEN Yield(g1, "resp", resp)
        ELSE IF IsStr(resp)
        THEN AfterBranches([g1 EXCEPT !.run_output = @ \o resp.s \o Sep])
        ELSE AfterBranches(g1)

\* Lines 144-153: the leader is run with stream=False inside try/except; a
\* response that is not a str makes run_output += leader_response raise
\* TypeError, which the same except swallows.
SingleShot(g, sc) ==
    LET g1 == [g EXCEPT !.leaderRuns = Append(@, FALSE)]
        resp == Response(sc)
    IN  IF sc.fails THEN AfterBranches(g1)
        ELSE IF g.stream THEN Yield(g1, "resp", resp)
        ELSE IF IsStr(resp)
        THEN AfterBranches([g1 EXCEPT !.run_output = @ \o resp.s \o Sep])
        ELSE AfterBranches(g1)

\* Variant: the streaming branch is taken whenever streaming was requested.
StartIgnoresStreamable(g, grp, sc) ==
    LET g1 == [g EXCEPT !.leader = Leader(grp), !.resolutions = @ + 1]
    IN  IF g.stream
        THEN StreamStep([g1 EXCEPT !.leaderRuns = Append(@, TRUE)], sc)
        ELSE SingleShot(g1, sc)

\* Lines 131-137, 143: leader = self.leader, then the branch on
\* stream and leader.streamable.
Start(g, grp, sc) ==
    LET g1 == [g EXCEPT !.leader = Leader(grp), !.resolutions = @ + 1]
    IN  IF g.stream /\ sc.streamable
        THEN StreamStep([g1 EXCEPT !.leaderRuns = Append(@, TRUE)], sc)
        ELSE SingleShot(g1, sc)

\* next() on the generator.
GenNext(g, grp, sc) ==
    CASE g.at = "start" -> Start(g, grp, sc)
      [] g.at = "chunk" -> StreamStep(g, sc)
      [] g.at = "sep" -> AfterBranches([g EXCEPT !.run_output = @ \o Sep])
      [] g.at = "resp" -> Yield(g, "resp_sep", Str(Sep))
      [] g.at = "resp_sep" -> AfterBranches(g)
      [] OTHER -> [g |-> g, out |-> "stop", val |-> None, exc |-> NoExc]

(***************************************************************************)
(* AssistantGroup.run. The group's own streamable property is True.        *)
(***************************************************************************)
GroupStreamable == TRUE

NotRun == [done |-> FALSE, gen |-> NoGen, returned |-> None, esc |-> NoExc]

\* run(stream=True): the generator is returned, not started.
RunStream ==
    /\ sgen.at = "none"
    /\ GroupStreamable
    /\ sgen' = NewGen(TRUE)
    /\ UNCHANGED <<callVars, group, script, delivered, sesc, once, out>>

\* The consumer pulls the next item of the generator run(stream=True) gave it
\* (a finished generator gives nothing more).
Pull ==
    /\ sgen.at # "none"
    /\ LET step == GenNext(sgen, group, script)
       IN  /\ sgen' = step.g
           /\ delivered' = IF step.out = "yield" THEN Append(delivered, step.val)
                           ELSE delivered
           /\ sesc' = IF step.out = "raise" THEN step.exc ELSE sesc
    /\ UNCHANGED <<callVars, group, script, once, out>>

\* run(stream=False): next() of a fresh generator.
RunSingle ==
    /\ ~once.done
    /\ LET step == GenNext(NewGen(FALSE), group, script)
       IN  once' = [done |-> TRUE, gen |-> step.g,
                    returned |-> step.val,
                    esc |-> IF step.out = "stop" THEN StopIteration ELSE step.exc]
    /\ UNCHANGED <<callVars, group, script, sgen, delivered, sesc, out>>

(***************************************************************************)
(* Direct uses of the leader property and of member_delegation_function.   *)
(***************************************************************************)
NoCall == [made |-> FALSE, tool |-> 0, outer |-> FALSE, task |-> <<>>, ran |-> <<>>,
           outcome |-> NoOutcome, result |-> None, exc |-> NoExc]

NoOut == [leader |-> NoLeader, id |-> 0, toolIds |-> <<>>,
          prev |-> NoLeader, prevId |-> 0, prevToolIds |-> <<>>,
          called |-> FALSE, member |-> [name |-> None], index |-> 0,
          fn |-> [name |-> <<>>, description |-> <<>>, runs |-> [name |-> None],
                  stream |-> FALSE],
          call |-> NoCall]

\* The identity of the configured lead, and of an object created while the
\* caller still holds the objects in held.
LeadId == 0

FreshId(held) == CHOOSE i \in 1..3 : i \notin {held[1], held[2]}

\* x = group.leader, the caller keeping the result of the access before.
AccessLeader ==
    /\ LET id == IF group.hasLead THEN LeadId ELSE FreshId(<<out.id, out.prevId>>)
       IN  out' = [out EXCEPT !.leader = Leader(group),
                              !.id = id,
                              !.toolIds = [k \in 1..Len(Leader(group).tools) |-> <<id, k>>],
                              !.prev = out.leader,
                              !.prevId = out.id,
                              !.prevToolIds = out.toolIds]
    /\ UNCHANGED <<callVars, group, runVars>>

\* What the leader passes as task_description, and how a member's run ends.
Tasks == {<<"t", "1">>, <<"t", "2">>}

MemberOutcomes == {Returned(Str(<<"o", "k">>)), Raised([type |-> "Exception", msg |-> <<"x">>])}

\* Variant: the member is run in the mode of the group's run.
DelegateTaskOuterMode(f, task_description, outer) ==
    [member |-> f.runs, message |-> task_description, stream |-> outer]

\* Line 57: the closure runs the member it was built for.
DelegateTask(f, task_description, outer) ==
    [member |-> f.runs, message |-> task_description, stream |-> f.stream]

\* The leader calls one of its delegation functions, in a run of the group
\* that is streamed (outer) or not; the member's run returns or raises.
InvokeTool ==
    /\ out.leader.resolved
    /\ \E k \in 1..Len(out.leader.tools), task \in Tasks, outer \in BOOLEAN,
          o \in MemberOutcomes :
           out' = [out EXCEPT !.call =
                      [made |-> TRUE, tool |-> k, outer |-> outer, task |-> task,
                       ran |-> <<DelegateTask(out.leader.tools[k], task, outer)>>,
                       outcome |-> o,
                       result |-> IF o.kind = "return" THEN o.val ELSE None,
                       exc |-> o.exc]]
    /\ UNCHANGED <<callVars, group, runVars>>

Delegate ==
    /\ \E in \in DelegateInputs :
           out' = [out EXCEPT !.called = TRUE, !.member = in.member, !.index = in.index,
                              !.fn = member_delegation_function(in.member, in.index)]
    /\ UNCHANGED <<callVars, group, runVars>>

(***************************************************************************)
(* Specifications: one for FunctionCall, one for a group's runs, one for   *)
(* leader construction.                                                    *)
(***************************************************************************)
IdleGroup == [hasLead |-> TRUE, members |-> <<>>, name |-> None, hasReviewer |-> FALSE]

IdleScript == [streamable |-> TRUE, chunks |-> <<>>, fails |-> FALSE]

NoCallStr == [called |-> FALSE, trimmed |-> <<>>, text |-> <<>>]

BuildIdle ==
    /\ deriver = [p \in SUBSET ParamNames |-> {}]
    /\ fn = PlainFunction
    /\ bres = NoBuild

CallIdle ==
    /\ fc = [entrypoint |-> NoEntrypoint, arguments |-> NoArguments, result |-> None,
             call_id |-> None, error |-> None]
    /\ ret = "none"
    /\ escaped = NoExc
    /\ last = [pre |-> fc, outcome |-> NoOutcome, calls |-> 0]
    /\ invocations = 0
    /\ executes = 0
    /\ callStr = NoCallStr
    /\ BuildIdle

RunIdle ==
    /\ sgen = NoGen
    /\ delivered = <<>>
    /\ sesc = NoExc
    /\ once = NotRun

CallInit ==
    /\ group = IdleGroup
    /\ script = IdleScript
    /\ RunIdle
    /\ out = NoOut
    /\ fc \in FunctionCalls
    /\ ret = "none"
    /\ escaped = NoExc
    /\ last = [pre |-> fc, outcome |-> NoOutcome, calls |-> 0]
    /\ invocations = 0
    /\ executes = 0
    /\ callStr = NoCallStr
    /\ BuildIdle

CallNext == Execute \/ GetCallStr

BuildInit ==
    /\ group = IdleGroup
    /\ script = IdleScript
    /\ RunIdle
    /\ out = NoOut
    /\ fc = [entrypoint |-> NoEntrypoint, arguments |-> NoArguments, result |-> None,
             call_id |-> None, error |-> None]
    /\ ret = "none"
    /\ escaped = NoExc
    /\ last = [pre |-> fc, outcome |-> NoOutcome, calls |-> 0]
    /\ invocations = 0
    /\ executes = 0
    /\ callStr = NoCallStr
    /\ deriver \in Derivers
    /\ fn = PlainFunction
    /\ bres = NoBuild

BuildNext == Build \/ FromCallable \/ GetDefinitionForPrompt

SpecBuild == BuildInit /\ [][BuildNext]_vars

SpecCall == CallInit /\ [][CallNext]_vars

RunGroups ==
    {g \in PlainGroups : Len(g.members) <= 1}

\* The implicit leader is Assistant(system_prompt, tools): no output model, so it
\* is streamable and its output is text. An explicit lead is any assistant.
LeaderScripts(grp) ==
    IF grp.hasLead THEN Scripts
    ELSE {sc \in Scripts : sc.streamable /\ AllStr(sc.chunks)}

GroupInit ==
    /\ CallIdle
    /\ group \in RunGroups
    /\ script \in LeaderScripts(group)
    /\ RunIdle
    /\ out = NoOut

GroupNext == RunStream \/ Pull \/ RunSingle

SpecGroup == GroupInit /\ [][GroupNext]_vars

LeaderInit ==
    /\ CallIdle
    /\ group \in PlainGroups
    /\ script = IdleScript
    /\ RunIdle
    /\ out = NoOut

LeaderNext == AccessLeader \/ Delegate

TeamInit ==
    /\ CallIdle
    /\ group \in Groups
    /\ script = IdleScript
    /\ RunIdle
    /\ out = NoOut

TeamNext == AccessLeader \/ InvokeTool

SpecTeam == TeamInit /\ [][TeamNext]_vars

SpecLeader == LeaderInit /\ [][LeaderNext]_vars

(***************************************************************************)
(* Claims about FunctionCall.execute(), checked under SpecCall.            *)
(***************************************************************************)
EntrypointRaised == executes > 0 /\ last.outcome.kind = "raise"

\* C1: when the entrypoint raises during execute(), with arguments None or a
\* mapping, no exception leaves execute(): it returns False and result is the
\* string form of the exception.
C1_RaiseIsContained ==
    EntrypointRaised =>
        /\ escaped = NoExc
        /\ ret = "False"
        /\ fc.result = [t |-> "str", s |-> last.outcome.exc.msg]

C1_Witness ==
    /\ EntrypointRaised
    /\ fc.arguments.isNone
    /\ last.outcome.exc = [type |-> "ValidationError", msg |-> <<"x">>]
    /\ ret = "False"
    /\ fc.result = Str(<<"x">>)

\* C2: whenever execute() fails because the entrypoint raised, the error field
\* is a non-empty string afterwards.
C2_ErrorIsSet ==
    EntrypointRaised => (IsStr(fc.error) /\ Len(fc.error.s) > 0)

\* C3: execute() on a function without entrypoint returns False, calls nothing
\* and leaves result, error, arguments and call_id as they were.
C3_NoEntrypointNoMutation ==
    (executes > 0 /\ ~HasEntrypoint(last.pre)) =>
        /\ ret = "False"
        /\ escaped = NoExc
        /\ fc = last.pre
        /\ last.calls = 0
        /\ invocations = 0

C3_Witness ==
    /\ executes > 0
    /\ ~HasEntrypoint(fc)
    /\ ret = "False"
    /\ fc.result = Str(<<"o", "l", "d">>)
    /\ fc.error = None

\* C4 as claimed: once one execute() has completed on a FunctionCall with an
\* entrypoint, a later execute() neither calls the entrypoint again nor
\* overwrites result or error.
C4_NeverReExecuted ==
    [][(executes >= 1 /\ executes' = executes + 1 /\ HasEntrypoint(fc)) =>
          (invocations' = invocations /\ fc'.result = fc.result
           /\ fc'.error = fc.error)]_vars

\* C4 as amended: execute() has no guard against re-execution. Every execute()
\* on a FunctionCall with an entrypoint, the first and every later one, calls
\* the entrypoint once more and overwrites result with that call's return value
\* or stringified exception; no other field is written.
C4_EveryExecuteCallsAndOverwrites ==
    [][(executes' = executes + 1 /\ HasEntrypoint(fc)) =>
          /\ invocations' = invocations + 1
          /\ fc'.result = IF last'.outcome.kind = "return"
                          THEN last'.outcome.val
                          ELSE [t |-> "str", s |-> last'.outcome.exc.msg]
          /\ fc' = [fc EXCEPT !.result = fc'.result]]_vars

C4_Witness ==
    /\ executes = 2
    /\ invocations = 2
    /\ last.pre.result = Str(<<"o", "k">>)
    /\ fc.result = Str(<<"x">>)

\* C5: execute() returns True exactly when there is an entrypoint and its one
\* call returned; then result is the returned value and error is untouched.
\* With an entrypoint, each execute() calls it exactly once, raising or not.
C5_TrueIffReturned ==
    executes > 0 =>
        /\ (ret = "True") <=> (HasEntrypoint(last.pre) /\ last.outcome.kind = "return")
        /\ (ret = "True") => (fc.result = last.outcome.val /\ fc.error = last.pre.error)
        /\ HasEntrypoint(last.pre) => last.calls = 1

C5_Witness ==
    /\ executes > 0
    /\ ret = "True"
    /\ last.calls = 1
    /\ fc.result = Str(<<"o", "k">>)
    /\ fc.error = None

(***************************************************************************)
(* Claims about AssistantGroup.run, checked under SpecGroup.               *)
(***************************************************************************)
IsPrefix(s, t) == Len(s) <= Len(t) /\ \A k \in 1..Len(s) : s[k] = t[k]

\* The streaming path: streaming was requested and the leader is streamable.
InStreamingPath == sgen.at # "none" /\ script.streamable

\* What the consumer is to receive from a leader that emits script.chunks.
ExpectedItems ==
    [k \in 1..Len(script.chunks) |->
        IF script.chunks[k].t = "str" THEN script.chunks[k] ELSE [t |-> "str", s |-> <<>>]]
    \o <<[t |-> "str", s |-> <<"\n", "\n">>]>>

\* C6: in the streaming path, for a leader that emits c1..cn and finishes, the
\* consumer receives c1..cn in order (a chunk that is not a str as ""), then
\* one separator "\n\n" and nothing more; the separator never comes early.
C6_StreamDeliversChunksThenSeparator ==
    (InStreamingPath /\ ~script.fails) =>
        /\ IsPrefix(delivered, ExpectedItems)
        /\ Len(delivered) = sgen.requested
        /\ sgen.at = "done" => delivered = ExpectedItems
        /\ sesc = NoExc

C6_Witness ==
    /\ InStreamingPath
    /\ ~script.fails
    /\ sgen.at = "done"
    /\ script.chunks = <<Str(<<"H", "e", "l">>), Obj>>
    /\ delivered = <<Str(<<"H", "e", "l">>), Str(<<>>), Str(<<"\n", "\n">>)>>

\* C7: for a leader that completes without raising, run(stream=False) returns
\* the leader's full response followed by "\n\n", and that string is the
\* concatenation of all chunks run(stream=True) delivers.
C7_ModesAgree ==
    ~script.fails =>
        /\ once.done =>
              /\ once.esc = NoExc
              /\ IsStr(Response(script))
              /\ once.returned = Str(Response(script).s \o Sep)
        /\ (once.done /\ sgen.at = "done") =>
              /\ AllStr(delivered)
              /\ once.returned = Str(Concat(delivered))

\* C8: in the single-shot path a leader that raises reaches no caller of run:
\* run(stream=False) returns the transcript accumulated before the exception,
\* which is the empty string, without separator.
C8_SingleShotSwallows ==
    script.fails =>
        /\ once.done =>
              /\ once.esc = NoExc
              /\ once.returned = Str(once.gen.run_output)
              /\ once.returned = Str(<<>>)
              /\ once.gen.leaderRuns = <<FALSE>>
        /\ (sgen.at # "none" /\ ~script.streamable) => (sesc = NoExc /\ delivered = <<>>)

C8_Witness ==
    /\ script.fails
    /\ script.chunks = <<Str(<<"H", "e", "l">>), Str(<<"l", "o">>)>>
    /\ once.done
    /\ once.esc = NoExc
    /\ once.returned = Str(<<>>)

\* C9: in the streaming path too, a leader whose chunk stream raises after k
\* chunks gives the consumer those k chunks and no exception.
C9_StreamContainsFailure ==
    (InStreamingPath /\ script.fails) =>
        /\ sesc = NoExc
        /\ IsPrefix(delivered, ExpectedItems)

(***************************************************************************)
(* Claims about leader construction, checked under SpecLeader.             *)
(***************************************************************************)
ExpectedSlug(name) ==
    [k \in 1..Len(name) |-> IF name[k] = " " THEN "_" ELSE LowerChar(name[k])]

ExpectedDecimal(n) ==
    IF n < 10 THEN <<Digits[n + 1]>> ELSE <<Digits[(n \div 10) + 1], Digits[(n % 10) + 1]>>

ExpectedToolName(member, index) ==
    <<"d", "e", "l", "e", "g", "a", "t", "e", "_", "t", "a", "s", "k", "_", "t", "o", "_">>
    \o (IF member.name.t = "str" /\ Len(member.name.s) > 0
        THEN ExpectedSlug(member.name.s)
        ELSE <<"m", "e", "m", "b", "e", "r", "_">> \o ExpectedDecimal(index))

DelegateToResearchBot ==
    <<"d", "e", "l", "e", "g", "a", "t", "e", "_", "t", "a", "s", "k", "_", "t", "o", "_",
      "r", "e", "s", "e", "a", "r", "c", "h", "_", "b", "o", "t">>

DelegateToMember2 ==
    <<"d", "e", "l", "e", "g", "a", "t", "e", "_", "t", "a", "s", "k", "_", "t", "o", "_",
      "m", "e", "m", "b", "e", "r", "_", "2">>

\* C10: member_delegation_function(member, index) names its descriptor
\* delegate_task_to_<name lowercased, each space an underscore> for a member
\* with a non-empty name and delegate_task_to_member_<index> otherwise; the
\* leader passes each member's 0-based position as index.
C10_DelegationName ==
    /\ out.called =>
          /\ out.fn.name = ExpectedToolName(out.member, out.index)
          /\ (out.member.name = Str(ResearchBot) /\ out.index = 2) =>
                out.fn.name = DelegateToResearchBot
          /\ (out.member.name = None /\ out.index = 2) =>
                out.fn.name = DelegateToMember2
    /\ (out.leader.resolved /\ ~group.hasLead) =>
          /\ Len(out.leader.tools) = Len(group.members)
          /\ \A k \in 1..Len(group.members) :
                out.leader.tools[k].name = ExpectedToolName(group.members[k], k - 1)

C10_Witness ==
    /\ out.called
    /\ out.member.name = Str(ResearchBot)
    /\ out.index = 2
    /\ out.fn.name = DelegateToResearchBot
    /\ out.leader.resolved
    /\ ~group.hasLead
    /\ Len(group.members) = 2
    /\ group.members[2].name = None
    /\ out.leader.tools[2].name =
          <<"d", "e", "l", "e", "g", "a", "t", "e", "_", "t", "a", "s", "k", "_", "t", "o", "_",
            "m", "e", "m", "b", "e", "r", "_", "1">>

NameChars ==
    {UpperChars[k] : k \in DOMAIN UpperChars} \cup {LowerChars[k] : k \in DOMAIN LowerChars}
    \cup {Digits[k] : k \in DOMAIN Digits} \cup {"_", "-"}

\* A name that matches [A-Za-z0-9_-]{1,64}.
ValidToolName(name) ==
    /\ Len(name) >= 1
    /\ Len(name) <= NameLimit
    /\ \A k \in 1..Len(name) : name[k] \in NameChars

\* C11: every descriptor has a name of 1 to 64 characters drawn from letters,
\* digits, "_" and "-": so has the delegation tool of every member, whatever
\* its name and index.
C11_ToolNameIsValid ==
    /\ out.called => ValidToolName(out.fn.name)
    /\ out.leader.resolved =>
          \A k \in 1..Len(out.leader.tools) : ValidToolName(out.leader.tools[k].name)

(***************************************************************************)
(* Function.build, Function.from_callable, get_definition_for_prompt.      *)
(***************************************************************************)
Built == bres.op \in {"build", "from_callable"}

\* C12: when the parameters of a callable are derived without failure, the
\* required names of the built Function's schema are exactly the parameters
\* without default, and each one is a property of the schema.
C12_RequiredIsParamsWithoutDefault ==
    (Built /\ bres.exc = NoExc /\ bres.c.derive = "ok") =>
        /\ fn.parameters.required = bres.c.params \ bres.c.defaults
        /\ fn.parameters.required \subseteq fn.parameters.properties
        /\ "return" \notin fn.parameters.properties

\* C13: when get_type_hints or get_json_schema raises, build and
\* from_callable raise nothing and return a Function with the empty schema
\* and the callable bound as its entrypoint.
C13_DerivationFailureIsSoft ==
    (Built /\ bres.c.derive # "ok") =>
        /\ bres.exc = NoExc
        /\ fn.parameters = EmptySchema
        /\ fn.entrypoint = [bound |-> TRUE, c |-> bres.c]

\* C15: get_definition_for_prompt returns None without entrypoint; with an
\* entrypoint whose hints resolve it raises nothing and returns the name, the
\* properties and the declared return type's name, "void" when none is
\* declared.
C15_PromptDefinition ==
    bres.op = "prompt" =>
        /\ ~fn.entrypoint.bound => (bres.exc = NoExc /\ bres.prompt = NoPrompt)
        /\ (fn.entrypoint.bound /\ fn.entrypoint.c.derive # "hints_raise") =>
              /\ bres.exc = NoExc
              /\ bres.prompt =
                    [isNone |-> FALSE, name |-> fn.name,
                     arguments |-> fn.parameters.properties,
                     returns |-> IF fn.entrypoint.c.ret = "none" THEN "void"
                                 ELSE fn.entrypoint.c.ret]

(***************************************************************************)
(* FunctionCall.get_call_str.                                              *)
(***************************************************************************)
LongStr(n) == Str([k \in 1..n |-> "y"])

Shown(v) == IF v = LongStr(TrimLimit + 1) THEN Str(Ellipsis) ELSE v

ExpectedItem(kw, k) == <<k, "=">> \o Format(Shown(kw[k]))

ExpectedCallStr(a) ==
    IF a.isNone \/ DOMAIN a.kw = {} THEN <<"f", "(", ")">>
    ELSE IF DOMAIN a.kw = {"a", "b"}
    THEN <<"f", "(">> \o ExpectedItem(a.kw, "a") \o <<",", " ">>
             \o ExpectedItem(a.kw, "b") \o <<")">>
    ELSE <<"f", "(">> \o ExpectedItem(a.kw, CHOOSE k \in DOMAIN a.kw : TRUE) \o <<")">>

\* C14: get_call_str renders name(arg=val, ...) where a str value is shown as
\* "..." exactly when it is longer than 50 characters (the 50-character value
\* is shown as it is, the 51-character one elided), other values are shown as
\* they are, and the FunctionCall with its arguments is left unchanged.
C14_CallStrElidesLongStrings ==
    [][callStr' # callStr =>
          /\ fc' = fc
          /\ callStr'.text = ExpectedCallStr(fc.arguments)
          /\ ~fc.arguments.isNone =>
                \A k \in DOMAIN fc.arguments.kw :
                    /\ callStr'.trimmed[k] = Str(Ellipsis) <=>
                          (IsStr(fc.arguments.kw[k]) /\ Len(fc.arguments.kw[k].s) > TrimLimit)
                    /\ callStr'.trimmed[k] # Str(Ellipsis) =>
                          callStr'.trimmed[k] = fc.arguments.kw[k]]_vars

C14_Witness ==
    /\ callStr.called
    /\ ~fc.arguments.isNone
    /\ fc.arguments.kw = [k \in {"a", "b"} |-> IF k = "a" THEN LongStr(TrimLimit + 1)
                                                 ELSE LongStr(TrimLimit)]
    /\ callStr.trimmed = [k \in {"a", "b"} |-> IF k = "a" THEN Str(Ellipsis)
                                                ELSE LongStr(TrimLimit)]
    /\ callStr.text = <<"f", "(", "a", "=", ".", ".", ".", ",", " ", "b", "=">>
                         \o LongStr(TrimLimit).s \o <<")">>

(***************************************************************************)
(* The run as a state machine, checked under SpecGroup.                    *)
(***************************************************************************)
\* A run that has left Start resolved the leader once, holds that leader, and
\* ran it once: streaming iff streaming was requested and it is streamable.
ResolvedOnceRunOnce(g) ==
    /\ g.at = "start" => (g.resolutions = 0 /\ g.leaderRuns = <<>>)
    /\ g.at \notin {"none", "start"} =>
          /\ g.resolutions = 1
          /\ g.leader = Leader(group)
          /\ g.leaderRuns = <<g.stream /\ script.streamable>>
    /\ g.at \in {"chunk", "sep"} => (g.stream /\ script.streamable)
    /\ g.at \in {"resp", "resp_sep", "out"} => ~(g.stream /\ script.streamable)

\* C16: in every run the leader is resolved exactly once before it is run and
\* kept for the run; it is run exactly once, in streaming mode iff the caller
\* requested streaming and the leader is streamable, else with stream=False.
C16_ResolveOnceThenOneMode ==
    /\ ResolvedOnceRunOnce(sgen)
    /\ once.done => ResolvedOnceRunOnce(once.gen)

C16_Witness ==
    /\ sgen.at = "resp_sep"
    /\ ~script.streamable
    /\ sgen.resolutions = 1
    /\ sgen.leaderRuns = <<FALSE>>
    /\ once.done
    /\ once.gen.leaderRuns = <<FALSE>>

\* C19: the generator does nothing before the first pull (no leader
\* resolution, no leader run, no chunk requested); in the streaming path every
\* chunk requested from the leader has been delivered, and one step requests
\* at most one chunk and delivers it, so without a pull nothing is requested.
C19_PullBased ==
    /\ [](sgen.at = "start" =>
            /\ sgen.resolutions = 0
            /\ sgen.leaderRuns = <<>>
            /\ sgen.requested = 0
            /\ delivered = <<>>)
    /\ [](InStreamingPath => (sgen.i <= Len(delivered) /\ sgen.requested <= Len(delivered) + 1))
    /\ [][(InStreamingPath /\ sgen'.requested # sgen.requested) =>
             /\ sgen'.requested = sgen.requested + 1
             /\ sgen'.i <= sgen.i + 1
             /\ sgen'.i = sgen.i + 1 => delivered' = Append(delivered, Forward(script.chunks[sgen'.i]))]_vars

C19_Witness ==
    /\ InStreamingPath
    /\ sgen.at = "chunk"
    /\ sgen.i = 1
    /\ sgen.requested = 1
    /\ Len(script.chunks) = 2
    /\ delivered = <<Forward(script.chunks[1])>>

\* C20: run(stream=False) always obtains one value from the generator, a str,
\* and never StopIteration: when the leader returns text, when it raises and
\* when its response is not a str; the generator has nothing after it.
C20_SingleShotYieldsOnce ==
    once.done =>
        /\ once.esc = NoExc
        /\ IsStr(once.returned)
        /\ once.gen.at = "out"
        /\ GenNext(once.gen, group, script).out = "stop"

C20_Witness ==
    /\ once.done
    /\ ~script.fails
    /\ ~AllStr(script.chunks)
    /\ ~script.streamable
    /\ once.returned = Str(<<>>)
    /\ once.esc = NoExc

(***************************************************************************)
(* The leader property and the delegation functions, checked under         *)
(* SpecTeam: the group's members, name and reviewer do not change.         *)
(***************************************************************************)
ExpectedTool(k) ==
    [name |-> DelegatePrefix \o member_name(group.members[k], k - 1),
     description |-> member_name(group.members[k], k - 1),
     runs |-> group.members[k],
     stream |-> FALSE]

\* C17: with an explicit lead every access returns that lead and builds no
\* delegation function; without one every access returns a new leader with
\* exactly one delegation function per member in member order (none without
\* members); two accesses give equal names, descriptions and system prompt
\* but distinct leaders and distinct Function objects.
C17_LeaderResolution ==
    out.leader.resolved =>
        /\ group.hasLead =>
              /\ out.leader.explicit
              /\ out.id = LeadId
              /\ out.leader.tools = <<>>
              /\ out.toolIds = <<>>
        /\ ~group.hasLead =>
              /\ ~out.leader.explicit
              /\ out.id # LeadId
              /\ Len(out.leader.tools) = Len(group.members)
              /\ \A k \in 1..Len(group.members) : out.leader.tools[k] = ExpectedTool(k)
              /\ out.prev.resolved =>
                    /\ out.prev.tools = out.leader.tools
                    /\ out.prev.prompt = out.leader.prompt
                    /\ out.prevId # out.id
                    /\ \A k \in 1..Len(out.toolIds), j \in 1..Len(out.prevToolIds) :
                          out.toolIds[k] # out.prevToolIds[j]

C17_Witness ==
    /\ ~group.hasLead
    /\ Len(group.members) = 2
    /\ group.members[1].name = Str(ResearchBot)
    /\ group.members[2].name = None
    /\ out.prev.resolved
    /\ out.id # out.prevId
    /\ out.leader.tools[1].runs = group.members[1]
    /\ out.leader.tools[2].name = DelegatePrefix \o <<"m", "e", "m", "b", "e", "r", "_", "1">>

\* C18: every invocation of a delegation function makes exactly one run, of
\* the member it was built for (tool k runs members[k]), with the task it was
\* given and stream=False, whether the group's run is streamed or not, and
\* returns what that run returned.
C18_DelegationRunsOwnMemberUnstreamed ==
    out.call.made =>
        /\ Len(out.call.ran) = 1
        /\ out.call.ran[1].member = group.members[out.call.tool]
        /\ out.call.ran[1].message = out.call.task
        /\ out.call.ran[1].stream = FALSE
        /\ out.call.outcome.kind = "return" =>
              (out.call.result = out.call.outcome.val /\ out.call.exc = NoExc)

C18_Witness ==
    /\ out.call.made
    /\ out.call.outer
    /\ out.call.tool = 2
    /\ group.members[1] # group.members[2]
    /\ out.call.ran = <<[member |-> group.members[2], message |-> <<"t", "1">>,
                         stream |-> FALSE]>>
    /\ out.call.result = Str(<<"o", "k">>)

====
